---- MODULE Spec2Model ----
(***************************************************************************)
(* Ball-by-ball scoring of the cricket scoring API: the match documents,   *)
(* the ball collection and the three handlers that write them              *)
(* (POST /api/matches, PATCH /api/matches/:id/start, POST /api/scoring/ball).*)
(*                                                                         *)
(* Representation notes.                                                   *)
(*  - innings.overs is the display number floor(balls/6) + (balls%6)/10;   *)
(*    the model stores it in tenths (1.4 overs is 14).                     *)
(*  - player references (bowler, batsman, ...) do not enter any scoring    *)
(*    computation and are left out of the ball documents.                  *)
(*  - request bodies are well typed: runs is a number, the flags booleans. *)
(***************************************************************************)
EXTENDS Integers, Naturals, Sequences, FiniteSets, TLC

VARIABLES
    matches,    \* the Match collection: match id -> document, or NoMatch
    balls,      \* the Ball collection, in insertion order
    response,   \* the last HTTP response sent by a handler
    reqs        \* the POST /ball requests in flight (interleaved executions)

vars == <<matches, balls, response, reqs>>

----------------------------------------------------------------------------
(* Bounds of the model. *)

MaxRuns == 2          \* runs values tried per ball: 0..MaxRuns
MaxOvers == 1         \* overs limits tried at creation: 0..MaxOvers
MaxBalls == 1         \* ball documents inserted per behaviour of Spec
MaxDeepBalls == 13    \* ball documents inserted per behaviour of InningsSpec
MaxInningsOvers == 2  \* overs limits tried in InningsSpec: 0..MaxInningsOvers
NumProcs == 2         \* POST /ball requests that may overlap in ConcSpec
MaxMixedBalls == 5    \* ball documents inserted per behaviour of MixedSpec
MaxChaseBalls == 16   \* ball documents inserted per behaviour of ChaseSpec
MaxFairExtras == 1    \* wides recorded per behaviour of FairSpec

(* Program constants. *)
WicketLimit == 10     \* scoring.js:148
BallsPerOver == 6     \* scoring.js:94, 140, 146

MatchIds == {"m1"}
Teams == {"T1", "T2"}
NoMatch == [status |-> "missing"]   \* findById found nothing
NoId == "none"
NoTeam == "none"
Procs == 1..NumProcs

Statuses == {"scheduled", "live", "completed", "abandoned"}

----------------------------------------------------------------------------
(* Documents. *)

\* Match.js:91-111 with the values both handlers write for a new innings.
NewInnings(batting, bowling) ==
    [battingTeam |-> batting, bowlingTeam |-> bowling,
     runs |-> 0, wickets |-> 0, overs |-> 0, balls |-> 0,
     extras |-> [wides |-> 0, noBalls |-> 0, byes |-> 0, legByes |-> 0],
     isCompleted |-> FALSE]

\* Match.js:112-126: the result sub-document of a new match.
EmptyResult == [winner |-> NoTeam, resultType |-> "none", margin |-> ""]

\* new Match(req.body) of POST /api/matches: schema defaults plus the body;
\* version is the document's version key (__v).
NewMatch(body) ==
    [team1 |-> body.team1, team2 |-> body.team2, overs |-> body.overs,
     status |-> body.status, tossWinner |-> NoTeam, tossDecision |-> "none",
     currentInnings |-> 1, innings |-> <<>>, result |-> EmptyResult,
     version |-> 0]

\* The request bodies of POST /ball: runs and the five flags.
BallInputs(runValues) ==
    [runs : runValues, isWide : BOOLEAN, isNoBall : BOOLEAN,
     isBye : BOOLEAN, isLegBye : BOOLEAN, isWicket : BOOLEAN]

Delivery(r, wide, noBall, bye, legBye, wicket) ==
    [runs |-> r, isWide |-> wide, isNoBall |-> noBall,
     isBye |-> bye, isLegBye |-> legBye, isWicket |-> wicket]

----------------------------------------------------------------------------
(* POST /api/scoring/ball: the computations of the handler. *)

\* A handler that checks only that the match and its current innings exist.
AcceptsAnyStoredMatch(doc) ==
    /\ doc # NoMatch
    /\ doc.currentInnings \in 1..Len(doc.innings)

\* scoring.js:76-90: the two guards; a request passing both is processed.
Accepts(doc) ==
    /\ doc # NoMatch
    /\ doc.status = "live"
    /\ doc.currentInnings \in 1..Len(doc.innings)
    /\ ~doc.innings[doc.currentInnings].isCompleted

\* scoring.js:93 and 138: a delivery counts toward the over unless it is a
\* wide or a no-ball.
IsLegal(b) == ~b.isWide /\ ~b.isNoBall

\* A handler that numbers the delivery from the count before it, whatever
\* its flags.
TotalBallsBefore(inn, b) == inn.balls

\* scoring.js:93
TotalBalls(inn, b) == inn.balls + (IF b.isWide \/ b.isNoBall THEN 0 ELSE 1)

\* A handler that wraps the ball number after seven deliveries.
BallIndexOfSeven(inn, b) ==
    LET totalBalls == TotalBalls(inn, b)
        over == totalBalls \div 7
        ball == (totalBalls % 7) + 1
    IN  IF ball = 7 THEN [over |-> over + 1, ball |-> 1]
                    ELSE [over |-> over, ball |-> ball]

\* A handler that takes the over from the count before the delivery and the
\* ball from the count after it.
BallIndexOverBefore(inn, b) ==
    LET totalBalls == TotalBalls(inn, b)
        over == inn.balls \div BallsPerOver
        ball == (totalBalls % BallsPerOver) + 1
    IN  IF ball = 7 THEN [over |-> over + 1, ball |-> 1]
                    ELSE [over |-> over, ball |-> ball]

\* scoring.js:94-107: the (over, ball) pair stamped on the ball document.
BallIndex(inn, b) ==
    LET totalBalls == TotalBalls(inn, b)
        over == totalBalls \div BallsPerOver
        ball == (totalBalls % BallsPerOver) + 1
    IN  IF ball = 7 THEN [over |-> over + 1, ball |-> 1]
                    ELSE [over |-> over, ball |-> ball]

\* A handler that files every ball document under the same match.
BallDocOneMatch(m, doc, b) ==
    LET idx == BallIndex(doc.innings[doc.currentInnings], b)
    IN  [match |-> "m1", innings |-> doc.currentInnings,
         over |-> idx.over, ball |-> idx.ball,
         runs |-> b.runs, isWide |-> b.isWide, isNoBall |-> b.isNoBall,
         isBye |-> b.isBye, isLegBye |-> b.isLegBye, isWicket |-> b.isWicket]

\* scoring.js:97-109: the ball document, built from the match as it was read.
BallDoc(m, doc, b) ==
    LET idx == BallIndex(doc.innings[doc.currentInnings], b)
    IN  [match |-> m, innings |-> doc.currentInnings,
         over |-> idx.over, ball |-> idx.ball,
         runs |-> b.runs, isWide |-> b.isWide, isNoBall |-> b.isNoBall,
         isBye |-> b.isBye, isLegBye |-> b.isLegBye, isWicket |-> b.isWicket]

\* A ball schema without the range of runs.
BallValidAnyRuns(e) ==
    /\ e.innings \in 1..4
    /\ e.over >= 0
    /\ e.ball \in 1..6

\* Ball.js:50-87: the validators that ballRecord.save() runs on the
\* document; save throws when one fails.
BallValid(e) ==
    /\ e.innings \in 1..4
    /\ e.over >= 0
    /\ e.ball \in 1..6
    /\ e.runs \in 0..6

\* A handler that adds the penalty run of a wide but not of a no-ball.
RunsToAddWideOnly(b) == b.runs + (IF b.isWide THEN 1 ELSE 0)

\* A handler that takes the penalty run of a wide off the total.
RunsToAddWideOff(b) ==
    b.runs - (IF b.isWide THEN 1 ELSE 0) + (IF b.isNoBall THEN 1 ELSE 0)

\* scoring.js:113-123: the runs credited to the innings for one delivery.
RunsToAdd(b) ==
    b.runs + (IF b.isWide THEN 1 ELSE 0) + (IF b.isNoBall THEN 1 ELSE 0)

\* A handler that counts one extra per bye or leg-bye delivery.
UpdateExtrasFlatByes(ex, b) ==
    [wides   |-> ex.wides   + (IF b.isWide   THEN 1 ELSE 0),
     noBalls |-> ex.noBalls + (IF b.isNoBall THEN 1 ELSE 0),
     byes    |-> ex.byes    + (IF b.isBye    THEN 1 ELSE 0),
     legByes |-> ex.legByes + (IF b.isLegBye THEN 1 ELSE 0)]

\* scoring.js:116-129
UpdateExtras(ex, b) ==
    [wides   |-> ex.wides   + (IF b.isWide   THEN 1 ELSE 0),
     noBalls |-> ex.noBalls + (IF b.isNoBall THEN 1 ELSE 0),
     byes    |-> ex.byes    + (IF b.isBye    THEN b.runs ELSE 0),
     legByes |-> ex.legByes + (IF b.isLegBye THEN b.runs ELSE 0)]

\* scoring.js:140-141, in tenths of an over.
OversDisplay(n) ==
    10 * (n \div BallsPerOver)
        + (IF n % BallsPerOver > 0 THEN n % BallsPerOver ELSE 0)

\* A handler that counts every delivery, wides and no-balls included.
BallsAfterCountingAll(n, b) == n + 1

\* scoring.js:137-139: the legal-ball counter after the delivery.
BallsAfter(n, b) == IF ~b.isWide /\ ~b.isNoBall THEN n + 1 ELSE n

\* scoring.js:133-135
WicketsAfter(w, b) == IF b.isWicket THEN w + 1 ELSE w

\* scoring.js:113-142: the innings totals after the delivery.
UpdateInnings(inn, b) ==
    LET n == BallsAfter(inn.balls, b)
    IN  [inn EXCEPT
            !.extras  = UpdateExtras(inn.extras, b),
            !.runs    = inn.runs + RunsToAdd(b),
            !.wickets = WicketsAfter(inn.wickets, b),
            !.balls   = n,
            !.overs   = IF IsLegal(b) THEN OversDisplay(n) ELSE inn.overs]

\* A handler that ends an innings on the overs limit only.
InningsIsCompleteOversOnly(inn, maxOvers) ==
    inn.balls \div BallsPerOver >= maxOvers

\* A handler that closes the innings only once the overs limit is exceeded.
InningsIsCompleteStrict(inn, maxOvers) ==
    \/ inn.balls \div BallsPerOver > maxOvers
    \/ inn.wickets >= WicketLimit

\* scoring.js:145-148
InningsIsComplete(inn, maxOvers) ==
    \/ inn.balls \div BallsPerOver >= maxOvers
    \/ inn.wickets >= WicketLimit

\* A handler that pushes the second innings without swapping the roles.
SecondInningsSameRoles(firstInnings) ==
    NewInnings(firstInnings.battingTeam, firstInnings.bowlingTeam)

\* scoring.js:155-165: the innings pushed when the first one completes.
SecondInnings(firstInnings) ==
    NewInnings(firstInnings.bowlingTeam, firstInnings.battingTeam)

\* scoring.js:177 and 181: the template strings of the margin.
Margin(n, unit) == ToString(n) \o " " \o unit

\* A handler that compares with >= and so gives a tied match to the chasers.
MatchResultTieToChaser(firstInnings, secondInnings) ==
    IF secondInnings.runs >= firstInnings.runs
    THEN [winner |-> secondInnings.battingTeam, resultType |-> "wickets",
          margin |-> Margin(WicketLimit - secondInnings.wickets, "wickets")]
    ELSE [winner |-> firstInnings.battingTeam, resultType |-> "runs",
          margin |-> Margin(firstInnings.runs - secondInnings.runs, "runs")]

\* A handler that completes the match without computing its result.
MatchResultUnset(firstInnings, secondInnings) == EmptyResult

\* scoring.js:171-185
MatchResult(firstInnings, secondInnings) ==
    IF secondInnings.runs > firstInnings.runs
    THEN [winner |-> secondInnings.battingTeam, resultType |-> "wickets",
          margin |-> Margin(WicketLimit - secondInnings.wickets, "wickets")]
    ELSE IF firstInnings.runs > secondInnings.runs
    THEN [winner |-> firstInnings.battingTeam, resultType |-> "runs",
          margin |-> Margin(firstInnings.runs - secondInnings.runs, "runs")]
    ELSE [winner |-> NoTeam, resultType |-> "tie", margin |-> "Match tied"]

\* A handler that marks the innings completed and does nothing more.
ApplyBallMarksOnly(doc, b) ==
    LET i    == doc.currentInnings
        inn  == UpdateInnings(doc.innings[i], b)
    IN  IF ~InningsIsComplete(inn, doc.overs)
        THEN [doc EXCEPT !.innings[i] = inn]
        ELSE [doc EXCEPT !.innings[i] = [inn EXCEPT !.isCompleted = TRUE]]

\* scoring.js:112-187: the match document as the handler leaves it before
\* match.save(), from the document it read.
ApplyBall(doc, b) ==
    LET i    == doc.currentInnings
        inn  == UpdateInnings(doc.innings[i], b)
    IN  IF ~InningsIsComplete(inn, doc.overs)
        THEN [doc EXCEPT !.innings[i] = inn]
        ELSE LET done == [inn EXCEPT !.isCompleted = TRUE]
                 inns == [doc.innings EXCEPT ![i] = done]
             IN  IF doc.currentInnings = 1
                 THEN [doc EXCEPT
                         !.currentInnings = 2,
                         !.innings = Append(inns, SecondInnings(inns[1]))]
                 ELSE [doc EXCEPT
                         !.status  = "completed",
                         !.innings = inns,
                         !.result  = MatchResult(inns[1], inns[2])]

\* scoring.js:189: match.save() sends the paths of the innings sub-document
\* that the handler changed since the document was read; the other paths of
\* the stored document keep their stored values.
MergeInnings(stored, read, new) ==
    [stored EXCEPT
        !.runs    = IF new.runs # read.runs THEN new.runs ELSE stored.runs,
        !.wickets = IF new.wickets # read.wickets THEN new.wickets
                                                  ELSE stored.wickets,
        !.overs   = IF new.overs # read.overs THEN new.overs ELSE stored.overs,
        !.balls   = IF new.balls # read.balls THEN new.balls ELSE stored.balls,
        !.extras  = [f \in DOMAIN stored.extras |->
                        IF new.extras[f] # read.extras[f]
                        THEN new.extras[f] ELSE stored.extras[f]],
        !.isCompleted = IF new.isCompleted # read.isCompleted
                        THEN new.isCompleted ELSE stored.isCompleted]

\* scoring.js:189 with Match.js:44-135 (version key on, no optimistic
\* concurrency option): match.save() sends the document's version in its
\* filter, because paths under the innings array changed, and fails when the
\* stored version differs.
SaveApplies(stored, read) == stored.version = read.version

\* scoring.js:189: match.save() of the handler, applied to the stored
\* document. The changed paths are set. When the handler pushed an innings
\* the innings array has changed both as a whole and under it, so it is set
\* as a whole from the handler's copy, and the version is incremented.
MatchSave(stored, read, new) ==
    LET i      == read.currentInnings
        pushed == Len(new.innings) > Len(read.innings)
        merged == [stored.innings EXCEPT
                      ![i] = MergeInnings(stored.innings[i], read.innings[i],
                                          new.innings[i])]
    IN  [stored EXCEPT
            !.innings = IF pushed THEN new.innings ELSE merged,
            !.version = IF pushed THEN stored.version + 1 ELSE stored.version,
            !.status  = IF new.status # read.status
                        THEN new.status ELSE stored.status,
            !.currentInnings = IF new.currentInnings # read.currentInnings
                               THEN new.currentInnings
                               ELSE stored.currentInnings,
            !.result  = [f \in DOMAIN stored.result |->
                            IF new.result[f] # read.result[f]
                            THEN new.result[f] ELSE stored.result[f]]]

----------------------------------------------------------------------------
(* PATCH /api/matches/:id/start *)

\* A handler that takes the toss winner for the other team as well.
OtherTeamIsWinner(doc, tossWinner) == tossWinner

\* matches.js:264-267
OtherTeam(doc, tossWinner) ==
    IF tossWinner = doc.team1 THEN doc.team2 ELSE doc.team1

\* matches.js:263-281: the document the start handler saves.
StartDoc(doc, tossWinner, tossDecision) ==
    LET battingTeam == IF tossDecision = "bat" THEN tossWinner
                       ELSE OtherTeam(doc, tossWinner)
        bowlingTeam == IF tossDecision = "bowl" THEN tossWinner
                       ELSE OtherTeam(doc, tossWinner)
    IN  [doc EXCEPT
            !.status = "live",
            !.tossWinner = tossWinner,
            !.tossDecision = tossDecision,
            !.innings = <<NewInnings(battingTeam, bowlingTeam)>>]

----------------------------------------------------------------------------
(* The handlers, each run to completion. *)

Reply(op, m, code) == [op |-> op, match |-> m, code |-> code]

IdleReq ==
    [pc |-> "idle", match |-> NoId, doc |-> NoMatch, code |-> 0,
     body |-> Delivery(0, FALSE, FALSE, FALSE, FALSE, FALSE)]

Init ==
    /\ matches = [m \in MatchIds |-> NoMatch]
    /\ balls = <<>>
    /\ response = Reply("none", NoId, 0)
    /\ reqs = [p \in Procs |-> IdleReq]

\* matches.js:104-162: POST /api/matches.
CreateMatch(m, body) ==
    /\ matches[m] = NoMatch
    /\ IF body.team1 = body.team2
       THEN /\ response' = Reply("create", m, 400)
            /\ UNCHANGED matches
       ELSE /\ matches' = [matches EXCEPT ![m] = NewMatch(body)]
            /\ response' = Reply("create", m, 201)
    /\ UNCHANGED <<balls, reqs>>

\* A handler that starts the match found, whatever its status.
StartMatchAnyStatus(m, tossWinner, tossDecision) ==
    /\ IF matches[m] = NoMatch
       THEN /\ response' = Reply("start", m, 404)
            /\ UNCHANGED matches
       ELSE /\ matches' = [matches EXCEPT
                             ![m] = StartDoc(matches[m], tossWinner, tossDecision)]
            /\ response' = Reply("start", m, 200)
    /\ UNCHANGED <<balls, reqs>>

\* matches.js:244-302: PATCH /api/matches/:id/start.
StartMatch(m, tossWinner, tossDecision) ==
    /\ IF matches[m] = NoMatch
       THEN /\ response' = Reply("start", m, 404)
            /\ UNCHANGED matches
       ELSE IF matches[m].status # "scheduled"
       THEN /\ response' = Reply("start", m, 400)
            /\ UNCHANGED matches
       ELSE /\ matches' = [matches EXCEPT
                             ![m] = StartDoc(matches[m], tossWinner, tossDecision)]
            /\ response' = Reply("start", m, 200)
    /\ UNCHANGED <<balls, reqs>>

\* A handler that recognises the input of the ball it recorded last and
\* answers 200 without recording it again.
RecordBallOnce(m, b) ==
    /\ IF ~Accepts(matches[m])
       THEN /\ response' = Reply("ball", m, 400)
            /\ UNCHANGED <<matches, balls>>
       ELSE IF ~BallValid(BallDoc(m, matches[m], b))
       THEN /\ response' = Reply("ball", m, 500)
            /\ UNCHANGED <<matches, balls>>
       ELSE LET doc  == matches[m]
                same == /\ Len(balls) >= 1
                        /\ [balls[Len(balls)] EXCEPT !.over = 0, !.ball = 0]
                             = [BallDoc(m, doc, b) EXCEPT !.over = 0, !.ball = 0]
            IN  IF same
                THEN /\ response' = Reply("ball", m, 200)
                     /\ UNCHANGED <<matches, balls>>
                ELSE /\ balls' = Append(balls, BallDoc(m, doc, b))
                     /\ matches' = [matches EXCEPT
                                 ![m] = MatchSave(doc, doc, ApplyBall(doc, b))]
                     /\ response' = Reply("ball", m, 201)
    /\ UNCHANGED reqs

\* A handler that builds the ball document after it has updated the match.
RecordBallStampedAfter(m, b) ==
    /\ IF ~Accepts(matches[m])
       THEN /\ response' = Reply("ball", m, 400)
            /\ UNCHANGED <<matches, balls>>
       ELSE IF ~BallValid(BallDoc(m, matches[m], b))
       THEN /\ response' = Reply("ball", m, 500)
            /\ UNCHANGED <<matches, balls>>
       ELSE LET doc == matches[m]
                new == MatchSave(doc, doc, ApplyBall(doc, b))
            IN  /\ balls' = Append(balls, BallDoc(m, new, b))
                /\ matches' = [matches EXCEPT ![m] = new]
                /\ response' = Reply("ball", m, 201)
    /\ UNCHANGED reqs

\* scoring.js:65-218: POST /api/scoring/ball, both writes reaching the
\* database; a ball document that fails its schema is refused by
\* ballRecord.save() and the catch block answers 500.
RecordBall(m, b) ==
    /\ IF ~Accepts(matches[m])
       THEN /\ response' = Reply("ball", m, 400)
            /\ UNCHANGED <<matches, balls>>
       ELSE IF ~BallValid(BallDoc(m, matches[m], b))
       THEN /\ response' = Reply("ball", m, 500)
            /\ UNCHANGED <<matches, balls>>
       ELSE LET doc == matches[m]
            IN  /\ balls' = Append(balls, BallDoc(m, doc, b))
                /\ matches' = [matches EXCEPT
                                 ![m] = MatchSave(doc, doc, ApplyBall(doc, b))]
                /\ response' = Reply("ball", m, 201)
    /\ UNCHANGED reqs

\* The request bodies of POST /api/matches that are tried.
CreateBodies ==
    [team1 : {"T1"}, team2 : Teams, overs : 0..MaxOvers, status : Statuses]

TossDecisions == {"bat", "bowl"}

\* The request bodies of POST /ball that are tried on match m: a request that
\* the guards reject never reads its body, so one body stands for all.
BodiesTried(m, inputs) ==
    IF Accepts(matches[m]) THEN inputs ELSE {IdleReq.body}

Next ==
    \/ \E m \in MatchIds, body \in CreateBodies : CreateMatch(m, body)
    \/ \E m \in MatchIds, t \in Teams, d \in TossDecisions : StartMatch(m, t, d)
    \/ \E m \in MatchIds : \E b \in BodiesTried(m, BallInputs(0..MaxRuns)) :
          /\ Len(balls) < MaxBalls \/ ~Accepts(matches[m])
          /\ RecordBall(m, b)

Spec == Init /\ [][Next]_vars

----------------------------------------------------------------------------
(* Whole innings: few kinds of delivery, many of them; team T1 wins the     *)
(* toss and bats or bowls.                                                 *)

\* The deliveries tried: a dot ball, and a wicket taken off a wide.
InningsInputs ==
    {Delivery(0, FALSE, FALSE, FALSE, FALSE, FALSE),
     Delivery(0, TRUE, FALSE, FALSE, FALSE, TRUE)}

InningsBodies ==
    [team1 : {"T1"}, team2 : {"T2"}, overs : 0..MaxInningsOvers,
     status : Statuses]

InningsNext ==
    \/ \E m \in MatchIds, body \in InningsBodies : CreateMatch(m, body)
    \/ \E m \in MatchIds, d \in TossDecisions : StartMatch(m, "T1", d)
    \/ \E m \in MatchIds : \E b \in BodiesTried(m, InningsInputs) :
          /\ Len(balls) < MaxDeepBalls \/ ~Accepts(matches[m])
          /\ RecordBall(m, b)

InningsSpec == Init /\ [][InningsNext]_vars

----------------------------------------------------------------------------
(* A few deliveries of every kind: each counter of the innings is moved    *)
(* by one of the deliveries tried. Team T1 wins the toss.                  *)

\* A single, a wide, a no-ball hit for one, two byes, a leg-bye, a wicket.
MixedInputs ==
    {Delivery(1, FALSE, FALSE, FALSE, FALSE, FALSE),
     Delivery(0, TRUE,  FALSE, FALSE, FALSE, FALSE),
     Delivery(1, FALSE, TRUE,  FALSE, FALSE, FALSE),
     Delivery(2, FALSE, FALSE, TRUE,  FALSE, FALSE),
     Delivery(1, FALSE, FALSE, FALSE, TRUE,  FALSE),
     Delivery(0, FALSE, FALSE, FALSE, FALSE, TRUE)}

MixedBodies ==
    [team1 : {"T1"}, team2 : {"T2"}, overs : 0..MaxOvers,
     status : {"scheduled"}]

MixedNext ==
    \/ \E m \in MatchIds, body \in MixedBodies : CreateMatch(m, body)
    \/ \E m \in MatchIds, d \in TossDecisions : StartMatch(m, "T1", d)
    \/ \E m \in MatchIds : \E b \in BodiesTried(m, MixedInputs) :
          /\ Len(balls) < MaxMixedBalls \/ ~Accepts(matches[m])
          /\ RecordBall(m, b)

MixedSpec == Init /\ [][MixedNext]_vars

----------------------------------------------------------------------------
(* A chase played out: team T1 wins the toss and bats, with an overs limit *)
(* of at least one over, long enough for a first innings of six dot balls  *)
(* and a second innings that loses all ten wickets.                        *)

ChaseBodies ==
    [team1 : {"T1"}, team2 : {"T2"}, overs : 1..MaxOvers,
     status : {"scheduled"}]

ChaseNext ==
    \/ \E m \in MatchIds, body \in ChaseBodies : CreateMatch(m, body)
    \/ \E m \in MatchIds : StartMatch(m, "T1", "bat")
    \/ \E m \in MatchIds : \E b \in BodiesTried(m, InningsInputs) :
          /\ Len(balls) < MaxChaseBalls \/ ~Accepts(matches[m])
          /\ RecordBall(m, b)

ChaseSpec == Init /\ [][ChaseNext]_vars

----------------------------------------------------------------------------
(* A match that keeps being scored: while it is live and its innings is    *)
(* open, legal deliveries keep being recorded. Wides are recorded too, a   *)
(* bounded number of them. Team T1 wins the toss.                          *)

LegalDelivery == Delivery(0, FALSE, FALSE, FALSE, FALSE, FALSE)

WideDelivery == Delivery(0, TRUE, FALSE, FALSE, FALSE, FALSE)

\* A legal delivery recorded on an open innings.
RecordLegal(m) == Accepts(matches[m]) /\ RecordBall(m, LegalDelivery)

\* A wide recorded on an open innings.
RecordWide(m) ==
    /\ Accepts(matches[m])
    /\ Cardinality({k \in DOMAIN balls : balls[k].isWide}) < MaxFairExtras
    /\ RecordBall(m, WideDelivery)

FairBodies ==
    [team1 : {"T1"}, team2 : {"T2"}, overs : 0..MaxOvers,
     status : {"scheduled"}]

FairNext ==
    \/ \E m \in MatchIds, body \in FairBodies : CreateMatch(m, body)
    \/ \E m \in MatchIds, d \in TossDecisions : StartMatch(m, "T1", d)
    \/ \E m \in MatchIds : RecordLegal(m)
    \/ \E m \in MatchIds : RecordWide(m)

FairSpec ==
    /\ Init
    /\ [][FairNext]_vars
    /\ \A m \in MatchIds : WF_vars(RecordLegal(m))

----------------------------------------------------------------------------
(* Overlapping POST /ball requests: the handler yields at each await       *)
(* (findById, ballRecord.save, match.save), so requests interleave there.  *)
(* Each request works on the document it read; either write may fail      *)
(* (ok = FALSE: the database refuses it), and the catch block then answers *)
(* 500.                                                                    *)

\* scoring.js:76-90: await Match.findById and the guards.
BallFind(p, m, b) ==
    /\ reqs[p].pc = "idle"
    /\ IF ~Accepts(matches[m])
       THEN /\ reqs' = [reqs EXCEPT ![p] = [@ EXCEPT !.pc = "done",
                                              !.match = m, !.code = 400]]
            /\ response' = Reply("ball", m, 400)
       ELSE /\ reqs' = [reqs EXCEPT ![p] = [@ EXCEPT !.pc = "read",
                                              !.match = m, !.body = b,
                                              !.doc = matches[m]]]
            /\ UNCHANGED response
    /\ UNCHANGED <<matches, balls>>

\* scoring.js:92-110 and 211-217: await ballRecord.save().
BallInsert(p, ok) ==
    /\ reqs[p].pc = "read"
    /\ IF ok /\ BallValid(BallDoc(reqs[p].match, reqs[p].doc, reqs[p].body))
       THEN /\ balls' = Append(balls,
                          BallDoc(reqs[p].match, reqs[p].doc, reqs[p].body))
            /\ reqs' = [reqs EXCEPT ![p].pc = "inserted"]
            /\ UNCHANGED response
       ELSE /\ reqs' = [reqs EXCEPT ![p] = [@ EXCEPT !.pc = "done",
                                              !.code = 500]]
            /\ response' = Reply("ball", reqs[p].match, 500)
            /\ UNCHANGED balls
    /\ UNCHANGED matches

\* scoring.js:112-217: the update of the document read, await match.save()
\* and the response.
BallUpdate(p, ok) ==
    /\ reqs[p].pc = "inserted"
    /\ LET m == reqs[p].match
       IN  IF ok /\ SaveApplies(matches[m], reqs[p].doc)
           THEN /\ matches' = [matches EXCEPT
                                 ![m] = MatchSave(matches[m], reqs[p].doc,
                                          ApplyBall(reqs[p].doc, reqs[p].body))]
                /\ reqs' = [reqs EXCEPT ![p] = [@ EXCEPT !.pc = "done",
                                                  !.code = 201]]
                /\ response' = Reply("ball", m, 201)
           ELSE /\ reqs' = [reqs EXCEPT ![p] = [@ EXCEPT !.pc = "done",
                                                  !.code = 500]]
                /\ response' = Reply("ball", m, 500)
                /\ UNCHANGED matches
    /\ UNCHANGED balls

\* The deliveries tried: a single, a wide, and a wicket off a legal ball.
ConcInputs ==
    {Delivery(1, FALSE, FALSE, FALSE, FALSE, FALSE),
     Delivery(0, TRUE, FALSE, FALSE, FALSE, FALSE),
     Delivery(0, FALSE, FALSE, FALSE, FALSE, TRUE)}

ConcBodies ==
    [team1 : {"T1"}, team2 : {"T2"}, overs : 0..MaxOvers,
     status : {"scheduled"}]

ConcNext ==
    \/ \E m \in MatchIds, body \in ConcBodies : CreateMatch(m, body)
    \/ \E m \in MatchIds, t \in Teams, d \in TossDecisions : StartMatch(m, t, d)
    \/ \E p \in Procs, m \in MatchIds :
          \E b \in BodiesTried(m, ConcInputs) : BallFind(p, m, b)
    \/ \E p \in Procs, ok \in BOOLEAN : BallInsert(p, ok)
    \/ \E p \in Procs, ok \in BOOLEAN : BallUpdate(p, ok)

ConcSpec == Init /\ [][ConcNext]_vars

----------------------------------------------------------------------------
(* Two matches in one database, each with its own scorer: the requests for *)
(* the two matches interleave at the awaits of the handlers, as in         *)
(* ConcSpec. Team T1 wins the toss.                                        *)

PairIds == {"m1", "m2"}

\* The process that sends the requests for each match.
Scorer == [m \in PairIds |-> IF m = "m1" THEN 1 ELSE 2]

PairInit ==
    /\ matches = [m \in PairIds |-> NoMatch]
    /\ balls = <<>>
    /\ response = Reply("none", NoId, 0)
    /\ reqs = [p \in Procs |-> IdleReq]

\* Deliveries whose runs the ball schema refuses: seven off the bat, and a
\* wicket off a wide with runs below zero.
OutOfRangeInputs ==
    {Delivery(7, FALSE, FALSE, FALSE, FALSE, FALSE),
     Delivery(-1, TRUE, FALSE, FALSE, FALSE, TRUE)}

PairBodies ==
    [team1 : {"T1"}, team2 : {"T2"}, overs : 0..MaxOvers,
     status : {"scheduled"}]

PairNext ==
    \/ \E m \in PairIds, body \in PairBodies : CreateMatch(m, body)
    \/ \E m \in PairIds, d \in TossDecisions : StartMatch(m, "T1", d)
    \/ \E m \in PairIds :
          \E b \in BodiesTried(m, ConcInputs \cup OutOfRangeInputs) :
              BallFind(Scorer[m], m, b)
    \/ \E p \in Procs, ok \in BOOLEAN : BallInsert(p, ok)
    \/ \E p \in Procs, ok \in BOOLEAN : BallUpdate(p, ok)

PairSpec == PairInit /\ [][PairNext]_vars

----------------------------------------------------------------------------
(* Reading the collections. *)

Stored == {m \in MatchIds : matches[m] # NoMatch}

InningsOf(m) == matches[m].innings

\* The ball documents of innings i of match m, in insertion order.
InningsLog(m, i) ==
    SelectSeq(balls, LAMBDA e : e.match = m /\ e.innings = i)

LegalCount(s) ==
    Cardinality({k \in DOMAIN s : ~s[k].isWide /\ ~s[k].isNoBall})

\* A step that inserted a ball document, and the document it inserted.
BallInserted == Len(balls') = Len(balls) + 1
LastBall == balls'[Len(balls')]

----------------------------------------------------------------------------
(* C1: after any sequence of successful recordBall calls the balls counter  *)
(* of every innings is the number of ball documents of that innings that   *)
(* are neither wide nor no-ball, and ten times its overs value is          *)
(* 10*floor(balls/6) + balls mod 6.                                        *)
C1_BallsAndOvers ==
    \A m \in Stored : \A i \in DOMAIN InningsOf(m) :
        LET inn == InningsOf(m)[i]
        IN  /\ inn.balls = LegalCount(InningsLog(m, i))
            /\ inn.overs = 10 * (inn.balls \div 6) + (inn.balls % 6)

\* Seven legal deliveries and a wide: 1.1 overs.
C1_Witness ==
    \E m \in Stored : \E i \in DOMAIN InningsOf(m) :
        /\ InningsOf(m)[i].balls = 7
        /\ InningsOf(m)[i].overs = 11
        /\ Len(InningsLog(m, i)) = 8

----------------------------------------------------------------------------
(* C2 as stated: a delivery flagged wide or no-ball leaves innings.balls   *)
(* unchanged, adds exactly 1 to innings.runs on top of its runs value and  *)
(* adds 1 to its extras counter.                                           *)
C2_ExactlyOneRun ==
    [][BallInserted =>
        LET e   == LastBall
            old == matches[e.match].innings[e.innings]
            new == matches'[e.match].innings[e.innings]
        IN  (e.isWide \/ e.isNoBall) =>
                /\ new.balls = old.balls
                /\ new.runs = old.runs + e.runs + 1
                /\ e.isWide => new.extras.wides = old.extras.wides + 1
                /\ e.isNoBall => new.extras.noBalls = old.extras.noBalls + 1
      ]_vars

(* C2 amended: a delivery flagged wide or no-ball leaves innings.balls     *)
(* unchanged, adds to innings.runs its runs value plus 1 for each of the   *)
(* two flags that is set (2 when it is flagged both wide and no-ball), and *)
(* adds exactly 1 to the extras counter of each flag that is set.          *)
C2_OneRunPerFlag ==
    [][BallInserted =>
        LET e   == LastBall
            old == matches[e.match].innings[e.innings]
            new == matches'[e.match].innings[e.innings]
            w   == IF e.isWide THEN 1 ELSE 0
            nb  == IF e.isNoBall THEN 1 ELSE 0
        IN  (e.isWide \/ e.isNoBall) =>
                /\ new.balls = old.balls
                /\ new.runs = old.runs + e.runs + w + nb
                /\ new.extras.wides = old.extras.wides + w
                /\ new.extras.noBalls = old.extras.noBalls + nb
      ]_vars

\* A delivery flagged both wide and no-ball, with one run, has been recorded.
C2_Witness ==
    /\ Len(balls) = 1
    /\ balls[1].isWide /\ balls[1].isNoBall /\ balls[1].runs = 1
    /\ \E m \in Stored :
          /\ Len(InningsOf(m)) >= 1
          /\ InningsOf(m)[1].runs = 3
          /\ InningsOf(m)[1].balls = 0
          /\ InningsOf(m)[1].extras.wides = 1
          /\ InningsOf(m)[1].extras.noBalls = 1

----------------------------------------------------------------------------
(* C3: every innings has wickets <= 10 in every reachable state; an        *)
(* innings whose wickets are 10 is marked completed by the call that took  *)
(* the tenth, and no later recordBall call changes any of its fields.      *)
C3_TenWickets ==
    /\ [](\A m \in Stored : \A i \in DOMAIN InningsOf(m) :
            /\ InningsOf(m)[i].wickets <= 10
            /\ InningsOf(m)[i].wickets = 10 => InningsOf(m)[i].isCompleted)
    /\ [][\A m \in Stored : \A i \in DOMAIN InningsOf(m) :
            InningsOf(m)[i].wickets = 10 =>
                matches'[m].innings[i] = InningsOf(m)[i]]_vars

\* The first innings is all out and the second has received a delivery.
C3_Witness ==
    \E m \in Stored :
        /\ Len(InningsOf(m)) = 2
        /\ InningsOf(m)[1].wickets = 10
        /\ InningsOf(m)[1].isCompleted
        /\ Len(InningsLog(m, 2)) >= 1

----------------------------------------------------------------------------
(* C4: the recordBall call that completes the first innings appends a      *)
(* second innings with the two teams' roles swapped, all counters and      *)
(* extras 0 and isCompleted false, sets currentInnings to 2 and leaves the *)
(* match live.                                                             *)
C4_SecondInningsStarts ==
    [][\A m \in Stored :
        (/\ Len(InningsOf(m)) >= 1
         /\ ~InningsOf(m)[1].isCompleted
         /\ matches'[m].innings[1].isCompleted) =>
            LET d == matches'[m]
                f == d.innings[1]
            IN  /\ Len(d.innings) = 2
                /\ d.innings[2] =
                      [battingTeam |-> f.bowlingTeam,
                       bowlingTeam |-> f.battingTeam,
                       runs |-> 0, wickets |-> 0, overs |-> 0, balls |-> 0,
                       extras |-> [wides |-> 0, noBalls |-> 0,
                                   byes |-> 0, legByes |-> 0],
                       isCompleted |-> FALSE]
                /\ d.currentInnings = 2
                /\ d.status = "live"]_vars

\* The sixth legal delivery of a 1-over match, no wicket, has been recorded.
C4_Witness ==
    \E m \in Stored :
        /\ matches[m].overs = 1
        /\ Len(balls) = 6
        /\ Len(InningsOf(m)) = 2
        /\ InningsOf(m)[1].isCompleted
        /\ InningsOf(m)[1].balls = 6
        /\ InningsOf(m)[1].wickets = 0
        /\ InningsOf(m)[2].battingTeam = InningsOf(m)[1].bowlingTeam
        /\ matches[m].currentInnings = 2

----------------------------------------------------------------------------
\* The two results worked out in section 8 of the specification: 150 against
\* 140 for 6, and 150 against 150.
C5_Examples ==
    LET first150  == [NewInnings("T1", "T2") EXCEPT !.runs = 150]
        second140 == [NewInnings("T2", "T1") EXCEPT !.runs = 140, !.wickets = 6]
        second150 == [NewInnings("T2", "T1") EXCEPT !.runs = 150, !.wickets = 6]
    IN  /\ MatchResult(first150, second140) =
              [winner |-> "T1", resultType |-> "runs", margin |-> "10 runs"]
        /\ MatchResult(first150, second150) =
              [winner |-> NoTeam, resultType |-> "tie", margin |-> "Match tied"]

----------------------------------------------------------------------------
(* C5: the result stored by the call that completes the second innings is  *)
(* determined by the two innings: the second innings' batting team by      *)
(* (10 - second.wickets) wickets if second.runs > first.runs, the first    *)
(* innings' batting team by (first.runs - second.runs) runs if             *)
(* first.runs > second.runs, and otherwise a tie with no winner and margin *)
(* "Match tied".                                                           *)
C5_Result ==
    [][/\ C5_Examples
       /\ \A m \in Stored :
        (matches[m].status = "live" /\ matches'[m].status = "completed") =>
            LET d == matches'[m]
                first  == d.innings[1]
                second == d.innings[2]
            IN  /\ Len(d.innings) = 2
                /\ second.runs > first.runs =>
                      /\ d.result.winner = second.battingTeam
                      /\ d.result.resultType = "wickets"
                      /\ d.result.margin =
                            ToString(10 - second.wickets) \o " wickets"
                /\ first.runs > second.runs =>
                      /\ d.result.winner = first.battingTeam
                      /\ d.result.resultType = "runs"
                      /\ d.result.margin =
                            ToString(first.runs - second.runs) \o " runs"
                /\ first.runs = second.runs =>
                      /\ d.result.winner = NoTeam
                      /\ d.result.resultType = "tie"
                      /\ d.result.margin = "Match tied"]_vars

\* A 1-over match won by the side batting first, 1 run to 0.
C5_Witness ==
    \E m \in Stored :
        /\ matches[m].status = "completed"
        /\ matches[m].overs = 1
        /\ Len(InningsOf(m)) = 2
        /\ InningsOf(m)[1].runs = 1
        /\ InningsOf(m)[2].runs = 0
        /\ matches[m].result.resultType = "runs"
        /\ matches[m].result.margin = "1 runs"
        /\ matches[m].result.winner = InningsOf(m)[1].battingTeam

----------------------------------------------------------------------------
(* C6: once the second innings' runs exceed the first innings' runs, with  *)
(* fewer than 10 wickets down and overs left, the match has its result:    *)
(* resultType wickets, the second innings' batting team the winner, margin *)
(* (10 - the second innings' wickets at that point) wickets.               *)
C6_ChaseEndsMatch ==
    \A m \in Stored :
        LET d == matches[m]
        IN  (/\ Len(d.innings) = 2
             /\ d.innings[2].runs > d.innings[1].runs
             /\ d.innings[2].wickets < 10
             /\ d.innings[2].balls \div 6 < d.overs) =>
                /\ d.status = "completed"
                /\ d.result.resultType = "wickets"
                /\ d.result.winner = d.innings[2].battingTeam
                /\ d.result.margin =
                      ToString(10 - d.innings[2].wickets) \o " wickets"

----------------------------------------------------------------------------
(* C7: when two overlapping recordBall calls on one match both succeed,    *)
(* the runs, balls, wickets and extras of its innings are those of the two *)
(* calls run one after the other, in one of the two orders.                *)

\* The match as the start handler left it, before any ball.
AsStarted(doc) ==
    StartDoc(NewMatch([team1 |-> doc.team1, team2 |-> doc.team2,
                       overs |-> doc.overs, status |-> "scheduled"]),
             doc.tossWinner, doc.tossDecision)

\* The handler run to completion on each body in turn.
RECURSIVE RunCalls(_, _)
RunCalls(doc, bodies) ==
    IF bodies = <<>> THEN doc
    ELSE RunCalls(IF Accepts(doc) THEN ApplyBall(doc, Head(bodies)) ELSE doc,
                  Tail(bodies))

Totals(inns) ==
    [i \in DOMAIN inns |->
        [runs |-> inns[i].runs, balls |-> inns[i].balls,
         wickets |-> inns[i].wickets, extras |-> inns[i].extras]]

AllSucceededOn(m) ==
    \A p \in Procs :
        reqs[p].pc = "done" /\ reqs[p].code = 201 /\ reqs[p].match = m

C7_Serialized ==
    \A m \in Stored :
        AllSucceededOn(m) =>
            \E f \in Permutations(Procs) :
                Totals(matches[m].innings) =
                    Totals(RunCalls(AsStarted(matches[m]),
                               [k \in 1..NumProcs |-> reqs[f[k]].body]).innings)

----------------------------------------------------------------------------
(* C8: a call whose write failed leaves neither write behind: once no call *)
(* is in flight, the ball documents in the log are those of the calls that *)
(* answered 201, one each.                                                 *)
C8_BothWritesOrNeither ==
    (\A p \in Procs : reqs[p].pc \in {"idle", "done"}) =>
        Len(balls) =
            Cardinality({p \in Procs :
                            reqs[p].pc = "done" /\ reqs[p].code = 201})

----------------------------------------------------------------------------
(* C9: recordBall on a match that does not exist, is not live, or whose    *)
(* current innings is missing or completed answers with an error, inserts  *)
(* no ball document and leaves the match as it was.                        *)
NotScorable(m) ==
    IF matches[m] = NoMatch THEN TRUE
    ELSE \/ matches[m].status # "live"
         \/ Len(matches[m].innings) < matches[m].currentInnings
         \/ matches[m].innings[matches[m].currentInnings].isCompleted

C9_Rejected ==
    [][\A m \in MatchIds :
        (response'.op = "ball" /\ response'.match = m /\ NotScorable(m)) =>
            /\ response'.code = 400
            /\ balls' = balls
            /\ matches' = matches]_vars

\* A ball refused on a match that two balls completed.
C9_Witness ==
    \E m \in Stored :
        /\ matches[m].status = "completed"
        /\ Len(InningsLog(m, 2)) >= 1
        /\ response = Reply("ball", m, 400)

----------------------------------------------------------------------------
(* C10: once no call is between its two writes, the totals of every        *)
(* innings are those of a replay of its ball documents: runs the sum of    *)
(* runs + 1 if wide + 1 if no-ball, wickets the number of wicket balls,    *)
(* balls the number of balls neither wide nor no-ball, and each extras     *)
(* counter its replayed value.                                             *)
RECURSIVE Replay(_)
Replay(s) ==
    IF s = <<>>
    THEN [runs |-> 0, balls |-> 0, wickets |-> 0,
          extras |-> [wides |-> 0, noBalls |-> 0, byes |-> 0, legByes |-> 0]]
    ELSE LET r == Replay(Tail(s))
             e == Head(s)
         IN  [runs    |-> r.runs + e.runs + (IF e.isWide THEN 1 ELSE 0)
                                 + (IF e.isNoBall THEN 1 ELSE 0),
              balls   |-> r.balls
                          + (IF ~e.isWide /\ ~e.isNoBall THEN 1 ELSE 0),
              wickets |-> r.wickets + (IF e.isWicket THEN 1 ELSE 0),
              extras  |->
                 [wides   |-> r.extras.wides + (IF e.isWide THEN 1 ELSE 0),
                  noBalls |-> r.extras.noBalls
                              + (IF e.isNoBall THEN 1 ELSE 0),
                  byes    |-> r.extras.byes + (IF e.isBye THEN e.runs ELSE 0),
                  legByes |-> r.extras.legByes
                              + (IF e.isLegBye THEN e.runs ELSE 0)]]

C10_TotalsEqualReplay ==
    (\A p \in Procs : reqs[p].pc # "inserted") =>
        \A m \in Stored :
            /\ \A i \in DOMAIN InningsOf(m) :
                  Totals(InningsOf(m))[i] = Replay(InningsLog(m, i))
            /\ \A k \in DOMAIN balls :
                  balls[k].match = m => balls[k].innings \in DOMAIN InningsOf(m)

----------------------------------------------------------------------------
(* C11: an innings that is marked completed stays exactly as it is: in     *)
(* every later step its isCompleted flag is still true and its runs,       *)
(* wickets, balls, overs, extras and teams are unchanged, so the flag goes *)
(* from false to true at most once and never back.                         *)
C11_CompletedIsFinal ==
    [][\A m \in Stored :
        \A i \in 1..Len(InningsOf(m)) :
            InningsOf(m)[i].isCompleted =>
                /\ i <= Len(matches'[m].innings)
                /\ matches'[m].innings[i] = InningsOf(m)[i]]_vars

\* Both innings are completed, balls were logged in the second one after the
\* first had closed, and the last request, a ball for the finished match, was
\* refused.
C11_Witness ==
    \E m \in Stored :
        /\ Len(InningsOf(m)) = 2
        /\ InningsOf(m)[1].isCompleted /\ InningsOf(m)[2].isCompleted
        /\ InningsOf(m)[1].wickets >= 1
        /\ Len(InningsLog(m, 2)) >= 2
        /\ response = Reply("ball", m, 400)

----------------------------------------------------------------------------
(* C12: after every successful recordBall call the innings that received   *)
(* the ball is marked completed if and only if floor(balls/6) >= the       *)
(* match's overs or wickets >= 10, on the totals after the ball; a tenth   *)
(* wicket off a wide or no-ball completes the innings too.                 *)
C12_CompletedIffLimit ==
    [][\A m \in Stored :
        (BallInserted /\ response' = Reply("ball", m, 201)) =>
            LET i   == matches[m].currentInnings
                inn == matches'[m].innings[i]
            IN  /\ LastBall.match = m /\ LastBall.innings = i
                /\ inn.isCompleted <=>
                      \/ inn.balls \div 6 >= matches[m].overs
                      \/ inn.wickets >= 10]_vars

\* An innings closed by its tenth wicket, taken off a wide before the overs
\* limit, and a second innings that has received balls and is still open,
\* under both limits.
C12_Witness ==
    \E m \in Stored :
        /\ Len(InningsOf(m)) = 2
        /\ matches[m].overs >= 1
        /\ InningsOf(m)[1].isCompleted
        /\ InningsOf(m)[1].wickets = 10
        /\ InningsOf(m)[1].balls \div 6 < matches[m].overs
        /\ LET s == InningsLog(m, 1) IN s[Len(s)].isWide /\ s[Len(s)].isWicket
        /\ ~InningsOf(m)[2].isCompleted
        /\ InningsOf(m)[2].wickets \in 1..9
        /\ InningsOf(m)[2].balls \in 1..(6 * matches[m].overs - 1)

----------------------------------------------------------------------------
\* The request body a ball document was built from.
BodyOf(e) ==
    Delivery(e.runs, e.isWide, e.isNoBall, e.isBye, e.isLegBye, e.isWicket)

(* C13: when a recordBall call has just succeeded and its innings is still *)
(* in progress, a second call for the same match is accepted and appends a *)
(* ball document; when it carries the same input as the first, the innings *)
(* gains that delivery's runs, extras, wicket and legal-ball count again.  *)
C13_NotIdempotent ==
    [][\A m \in Stored :
        (/\ response = Reply("ball", m, 201)
         /\ Accepts(matches[m])
         /\ balls[Len(balls)].innings = matches[m].currentInnings
         /\ response'.op = "ball" /\ response'.match = m) =>
            LET i     == matches[m].currentInnings
                first == balls[Len(balls)]
                old   == matches[m].innings[i]
                new   == matches'[m].innings[i]
                one(flag) == IF flag THEN 1 ELSE 0
            IN  /\ response'.code = 201
                /\ BallInserted
                /\ LastBall.match = m /\ LastBall.innings = i
                /\ BodyOf(LastBall) = BodyOf(first) =>
                      /\ new.runs = old.runs + first.runs
                                    + one(first.isWide) + one(first.isNoBall)
                      /\ new.wickets = old.wickets + one(first.isWicket)
                      /\ new.balls = old.balls
                            + one(~first.isWide /\ ~first.isNoBall)
                      /\ new.extras.wides = old.extras.wides + one(first.isWide)
                      /\ new.extras.noBalls
                            = old.extras.noBalls + one(first.isNoBall)
                      /\ new.extras.byes = old.extras.byes
                            + (IF first.isBye THEN first.runs ELSE 0)
                      /\ new.extras.legByes = old.extras.legByes
                            + (IF first.isLegBye THEN first.runs ELSE 0)]_vars

\* The same wicket off a wide was submitted twice in a row and counted twice.
C13_Witness ==
    \E m \in Stored :
        /\ Len(InningsOf(m)) >= 1
        /\ Len(InningsLog(m, 1)) = 2
        /\ LET s == InningsLog(m, 1)
           IN  /\ s[1] = s[2]
               /\ s[1].isWide /\ s[1].isWicket
        /\ InningsOf(m)[1].wickets = 2
        /\ InningsOf(m)[1].runs = 2
        /\ InningsOf(m)[1].extras.wides = 2
        /\ InningsOf(m)[1].balls = 0

----------------------------------------------------------------------------
(* C14: the position stamped on a new ball document comes from the balls   *)
(* count of its innings before the ball is applied: with p = balls + 1 for *)
(* a delivery that is neither wide nor no-ball and p = balls otherwise,    *)
(* its over is floor(p/6) and its ball is (p mod 6) + 1.                   *)
C14_StampedPosition ==
    [][\A m \in Stored :
        (BallInserted /\ LastBall.match = m) =>
            LET inn == matches[m].innings[matches[m].currentInnings]
                p   == IF ~LastBall.isWide /\ ~LastBall.isNoBall
                       THEN inn.balls + 1 ELSE inn.balls
            IN  /\ LastBall.innings = matches[m].currentInnings
                /\ LastBall.over = p \div 6
                /\ LastBall.ball = (p % 6) + 1]_vars

\* An innings whose first delivery, a legal one, is stamped over 0 ball 2,
\* whose sixth legal delivery is stamped over 1 ball 1, and where a wide
\* bowled after it is stamped over 1 ball 1 as well.
C14_Witness ==
    \E m \in Stored :
        LET s == InningsLog(m, 1)
        IN  /\ Len(s) >= 7
            /\ ~s[1].isWide /\ s[1].over = 0 /\ s[1].ball = 2
            /\ \E k \in 2..(Len(s) - 1) :
                  /\ ~s[k].isWide
                  /\ LegalCount(SubSeq(s, 1, k)) = 6
                  /\ s[k].over = 1 /\ s[k].ball = 1
                  /\ s[k + 1].isWide
                  /\ s[k + 1].over = 1 /\ s[k + 1].ball = 1

----------------------------------------------------------------------------
(* C15: a delivery flagged bye (leg-bye) adds its runs value to            *)
(* extras.byes (extras.legByes) and that runs value once to innings.runs,  *)
(* next to the penalty runs of a wide or no-ball; when it is neither wide  *)
(* nor no-ball it adds 1 to innings.balls. Every combination of flags is   *)
(* accepted.                                                               *)
C15_ByesCountRuns ==
    [][\A m \in Stored :
        (/\ response'.op = "ball" /\ response'.match = m
         /\ Accepts(matches[m])) =>
            LET i   == matches[m].currentInnings
                old == matches[m].innings[i]
                new == matches'[m].innings[i]
                e   == LastBall
                one(flag) == IF flag THEN 1 ELSE 0
            IN  /\ response'.code = 201 /\ BallInserted
                /\ (e.isBye \/ e.isLegBye) =>
                      /\ new.extras.byes = old.extras.byes
                            + (IF e.isBye THEN e.runs ELSE 0)
                      /\ new.extras.legByes = old.extras.legByes
                            + (IF e.isLegBye THEN e.runs ELSE 0)
                      /\ new.runs = old.runs + e.runs
                            + one(e.isWide) + one(e.isNoBall)
                      /\ new.balls = old.balls
                            + one(~e.isWide /\ ~e.isNoBall)]_vars

\* A delivery flagged both wide and bye, with two runs, was recorded: two
\* byes, one wide, three runs, no legal ball.
C15_Witness ==
    \E m \in Stored :
        /\ Len(InningsOf(m)) >= 1
        /\ Len(InningsLog(m, 1)) = 1
        /\ LET e == InningsLog(m, 1)[1]
           IN  e.isWide /\ e.isBye /\ ~e.isNoBall /\ ~e.isLegBye /\ e.runs = 2
        /\ InningsOf(m)[1].extras.byes = 2
        /\ InningsOf(m)[1].extras.wides = 1
        /\ InningsOf(m)[1].runs = 3
        /\ InningsOf(m)[1].balls = 0

----------------------------------------------------------------------------
----------------------------------------------------------------------------
----------------------------------------------------------------------------
\* The ball documents of match m, in insertion order.
MatchLog(s, m) == SelectSeq(s, LAMBDA e : e.match = m)

\* The fields of a match document that the scoring operations write.
Scored(doc) ==
    [status |-> doc.status, currentInnings |-> doc.currentInnings,
     innings |-> doc.innings, result |-> doc.result]

\* The match a step works for: the match of the request that moved, or of
\* the create or start call that answered.
StepIsFor(m) ==
    \/ \E p \in Procs : reqs'[p] # reqs[p] /\ reqs'[p].match = m
    \/ reqs' = reqs /\ response'.match = m

\* The requests that reached match m's handler and their outcome.
CallsOn(m) == {p \in Procs : reqs[p].pc # "idle" /\ reqs[p].match = m}

(* C18: a step of a call for one match leaves the other match's document   *)
(* and ball documents unchanged, however the calls for the two matches     *)
(* interleave; and a started match is in the state its own calls produce:  *)
(* as started when it received none, and as after its one successful ball  *)
(* when it received one, whatever was done to the other match.             *)
C18_MatchesIndependent ==
    /\ [][\A a, b \in PairIds :
            (a # b /\ StepIsFor(a)) =>
                /\ matches'[b] = matches[b]
                /\ MatchLog(balls', b) = MatchLog(balls, b)]_vars
    /\ [](\A b \in PairIds :
            (matches[b] # NoMatch /\ matches[b].status # "scheduled") =>
                /\ CallsOn(b) = {} =>
                      /\ Scored(matches[b]) = Scored(AsStarted(matches[b]))
                      /\ MatchLog(balls, b) = <<>>
                /\ \A q \in Procs :
                      (/\ CallsOn(b) = {q}
                       /\ reqs[q].pc = "done" /\ reqs[q].code = 201) =>
                          /\ Scored(matches[b]) =
                                Scored(RunCalls(AsStarted(matches[b]),
                                                <<reqs[q].body>>))
                          /\ Len(MatchLog(balls, b)) = 1
                          /\ BodyOf(MatchLog(balls, b)[1]) = reqs[q].body)

\* Both matches were started and each received a ball, the ball for m1
\* between the two writes of the ball for m2; m2 holds exactly its own wicket
\* and m1 its own single.
C18_Witness ==
    /\ matches["m1"] # NoMatch /\ matches["m2"] # NoMatch
    /\ \A p \in {1, 2} : reqs[p].pc = "done" /\ reqs[p].code = 201
    /\ reqs[1].match = "m1" /\ reqs[2].match = "m2"
    /\ reqs[1].body.runs = 1 /\ reqs[2].body.isWicket
    /\ Len(balls) = 2 /\ balls[1].match = "m2" /\ balls[2].match = "m1"
    /\ response = Reply("ball", "m2", 201)
    /\ Len(matches["m1"].innings) >= 1 /\ Len(matches["m2"].innings) >= 1
    /\ matches["m1"].innings[1].runs = 1
    /\ matches["m1"].innings[1].wickets = 0
    /\ matches["m2"].innings[1].runs = 0
    /\ matches["m2"].innings[1].wickets = 1

----------------------------------------------------------------------------
\* The seven counters of an innings.
Counters(inn) ==
    <<inn.runs, inn.wickets, inn.balls, inn.extras.wides, inn.extras.noBalls,
      inn.extras.byes, inn.extras.legByes>>

(* C19: in every innings runs, wickets, balls and the four extras counters *)
(* are non-negative, and no step makes any of them smaller, for every      *)
(* sequence of accepted recordBall calls.                                  *)
C19_CountersNeverDecrease ==
    /\ [](\A m \in Stored :
            \A i \in 1..Len(InningsOf(m)) :
                \A k \in 1..7 : Counters(InningsOf(m)[i])[k] >= 0)
    /\ [][\A m \in Stored :
            \A i \in 1..Len(InningsOf(m)) :
                /\ i <= Len(matches'[m].innings)
                /\ \A k \in 1..7 :
                      Counters(matches'[m].innings[i])[k]
                          >= Counters(InningsOf(m)[i])[k]]_vars

\* An innings in which every one of the seven counters has been raised.
C19_Witness ==
    \E m \in Stored :
        /\ Len(InningsOf(m)) >= 1
        /\ Len(InningsLog(m, 1)) = 5
        /\ \A k \in 1..7 : Counters(InningsOf(m)[1])[k] >= 1
        /\ InningsOf(m)[1].runs = 6
        /\ InningsOf(m)[1].extras.byes = 2

----------------------------------------------------------------------------
(* C20: a start call on a stored match whose status is not scheduled (a    *)
(* second start, or a start on a live, completed or abandoned match)       *)
(* answers 400 and leaves the match document, with its status, toss        *)
(* fields, currentInnings and innings, and the ball documents unchanged.   *)
C20_StartRefused ==
    [][\A m \in Stored :
        (/\ response'.op = "start" /\ response'.match = m
         /\ matches[m].status # "scheduled") =>
            /\ response'.code = 400
            /\ matches'[m] = matches[m]
            /\ balls' = balls]_vars

\* A second start call on a live match with a wicket down and runs on the
\* board was refused; the first innings still has its totals and the toss is
\* the one of the first start.
C20_Witness ==
    \E m \in Stored :
        /\ response = Reply("start", m, 400)
        /\ matches[m].status = "live"
        /\ matches[m].tossWinner = "T1"
        /\ Len(InningsOf(m)) = 1
        /\ InningsOf(m)[1].runs >= 2
        /\ InningsOf(m)[1].wickets >= 2
        /\ Len(InningsLog(m, 1)) >= 3

----------------------------------------------------------------------------
(* C21: a ball request whose runs value is outside 0..6 never gets a ball  *)
(* document inserted: the step that handles it past the guards answers     *)
(* 500 and changes neither the ball log nor any match document, and the    *)
(* request ends with an error code.                                        *)
C21_OutOfRangeRefused ==
    /\ [](\A p \in Procs :
            reqs[p].body.runs \notin 0..6 =>
                /\ reqs[p].pc # "inserted"
                /\ reqs[p].pc = "done" => reqs[p].code \in {400, 500})
    /\ [](\A k \in DOMAIN balls : balls[k].runs \in 0..6)
    /\ [][\A p \in Procs :
            (/\ reqs[p].pc = "read"
             /\ reqs[p].body.runs \notin 0..6
             /\ reqs'[p] # reqs[p]) =>
                /\ reqs'[p].pc = "done" /\ reqs'[p].code = 500
                /\ response' = Reply("ball", reqs[p].match, 500)
                /\ balls' = balls
                /\ matches' = matches]_vars

\* A started match was offered a wicket off a wide with runs -1: the request
\* ended with 500, no ball document exists, and the innings shows no run, no
\* wicket and no wide.
C21_Witness ==
    \E m \in PairIds, p \in Procs :
        /\ matches[m] # NoMatch /\ matches[m].status = "live"
        /\ reqs[p].match = m /\ reqs[p].pc = "done" /\ reqs[p].code = 500
        /\ reqs[p].body.runs = -1 /\ reqs[p].body.isWicket
        /\ response = Reply("ball", m, 500)
        /\ balls = <<>>
        /\ matches[m].innings[1].runs = 0
        /\ matches[m].innings[1].wickets = 0
        /\ matches[m].innings[1].extras.wides = 0

----------------------------------------------------------------------------
(* C22: the ball log only grows at its end, one document per step; a step  *)
(* inserts a document exactly when it is a recordBall call answering 201,  *)
(* and the document carries the match's currentInnings as it was before    *)
(* the call, so the ball that completes the first innings is stamped       *)
(* innings 1.                                                              *)
C22_AppendOnly ==
    [][/\ Len(balls') \in {Len(balls), Len(balls) + 1}
       /\ SubSeq(balls', 1, Len(balls)) = balls
       /\ BallInserted =>
             response'.op = "ball" /\ response'.code = 201
       /\ \A m \in Stored :
             response' = Reply("ball", m, 201) =>
                 /\ BallInserted
                 /\ LastBall.match = m
                 /\ LastBall.innings = matches[m].currentInnings]_vars

\* In a match with overs 0 the ball that completed the first innings is
\* stamped innings 1 although the match moved to innings 2 in the same call,
\* and it is still the first document of the log after the ball of the second
\* innings was recorded.
C22_Witness ==
    \E m \in Stored :
        /\ Len(InningsOf(m)) = 2
        /\ matches[m].status = "completed"
        /\ Len(balls) = 2
        /\ balls[1].match = m /\ balls[1].innings = 1
        /\ balls[2].match = m /\ balls[2].innings = 2
        /\ InningsOf(m)[1].isCompleted
        /\ Len(InningsLog(m, 1)) = 1

----------------------------------------------------------------------------
\* One delivery for each way the two flags that decide legality can be set.
LegalityInputs ==
    {Delivery(0, w, n, FALSE, FALSE, FALSE) : w \in BOOLEAN, n \in BOOLEAN}

(* C23: for every innings that can receive a ball and every delivery, the  *)
(* ball-in-over value (totalBalls mod 6) + 1 lies in 1..6, so the branch   *)
(* for a seventh ball is not taken: the stamp is floor(totalBalls/6) and   *)
(* (totalBalls mod 6) + 1 as computed, and the ball document passes the    *)
(* schema. Every ball document in the log has its ball in 1..6.            *)
C23_NoSeventhBall ==
    /\ \A k \in DOMAIN balls : balls[k].ball \in 1..6 /\ balls[k].over >= 0
    /\ \A m \in Stored :
          Accepts(matches[m]) =>
              \A b \in LegalityInputs :
                  LET inn == matches[m].innings[matches[m].currentInnings]
                      totalBalls == TotalBalls(inn, b)
                      ball == (totalBalls % 6) + 1
                  IN  /\ ball \in 1..6
                      /\ BallIndex(inn, b) =
                            [over |-> totalBalls \div 6, ball |-> ball]
                      /\ BallValid(BallDoc(m, matches[m], b))

\* An innings open after its eleventh legal ball, where the next legal ball
\* gives totalBalls 12; its log holds documents stamped ball 6 and ball 1.
C23_Witness ==
    \E m \in Stored :
        /\ Accepts(matches[m])
        /\ matches[m].innings[matches[m].currentInnings].balls = 11
        /\ \E k \in DOMAIN balls : balls[k].ball = 6
        /\ \E k \in DOMAIN balls : balls[k].ball = 1 /\ balls[k].over = 1

----------------------------------------------------------------------------
(* C24: in every innings the k-th legal delivery (k >= 1) is stamped       *)
(* over = floor((k-1)/6) and ball = ((k-1) mod 6) + 1: the first legal     *)
(* delivery is over 0 ball 1, the six legal deliveries of an over share    *)
(* its number, and a new over starts with the 7th, 13th, ... one.          *)
C24_OverOfSixBalls ==
    \A m \in Stored :
        \A i \in 1..Len(InningsOf(m)) :
            LET s == InningsLog(m, i)
            IN  \A j \in DOMAIN s :
                    (~s[j].isWide /\ ~s[j].isNoBall) =>
                        LET k == LegalCount(SubSeq(s, 1, j))
                        IN  /\ s[j].over = (k - 1) \div 6
                            /\ s[j].ball = ((k - 1) % 6) + 1

----------------------------------------------------------------------------
\* The match went through the start handler, which records the toss.
WasStarted(m) == matches[m] # NoMatch /\ matches[m].tossWinner # NoTeam

----------------------------------------------------------------------------
(* C26: in every state a match has at most two innings; once it has been   *)
(* started currentInnings is 1 or 2 and equals the number of innings; and  *)
(* its status is completed if and only if it has two innings and both are  *)
(* marked completed.                                                       *)
C26_TwoInnings ==
    \A m \in Stored :
        /\ Len(InningsOf(m)) <= 2
        /\ matches[m].currentInnings \in {1, 2}
        /\ WasStarted(m) => matches[m].currentInnings = Len(InningsOf(m))
        /\ matches[m].status = "completed" <=>
              /\ Len(InningsOf(m)) = 2
              /\ InningsOf(m)[1].isCompleted
              /\ InningsOf(m)[2].isCompleted

----------------------------------------------------------------------------
(* C27: whenever a match is completed with resultType wickets, the side    *)
(* batting second has lost fewer than 10 wickets, so the margin is between *)
(* 1 and 10 wickets.                                                       *)
C27_WinnerHasWicketsLeft ==
    \A m \in Stored :
        (matches[m].status = "completed"
             /\ matches[m].result.resultType = "wickets") =>
            /\ Len(InningsOf(m)) = 2
            /\ InningsOf(m)[2].wickets < 10
            /\ matches[m].result.margin
                  \in {Margin(k, "wickets") : k \in 1..10}

----------------------------------------------------------------------------
(* C28: a start call on a scheduled match, with one of its two teams as    *)
(* toss winner and bat or bowl as decision, answers 200, sets the status   *)
(* to live, records the toss and leaves exactly one innings with all       *)
(* counters zero and not completed, in which the toss winner bats if the   *)
(* decision is bat and bowls if it is bowl, and the other team of the      *)
(* match has the other role.                                               *)
C28_StartCreatesInnings ==
    [][\A m \in Stored :
        (/\ response'.op = "start" /\ response'.match = m
         /\ matches[m].status = "scheduled") =>
            LET new   == matches'[m]
                inn   == new.innings[1]
                teams == {matches[m].team1, matches[m].team2}
            IN  /\ response'.code = 200
                /\ new.status = "live"
                /\ new.tossWinner \in teams
                /\ new.tossDecision \in {"bat", "bowl"}
                /\ new.currentInnings = 1
                /\ Len(new.innings) = 1
                /\ inn = NewInnings(inn.battingTeam, inn.bowlingTeam)
                /\ Counters(inn) = <<0, 0, 0, 0, 0, 0, 0>>
                /\ inn.overs = 0 /\ ~inn.isCompleted
                /\ new.tossDecision = "bat" => inn.battingTeam = new.tossWinner
                /\ new.tossDecision = "bowl" => inn.bowlingTeam = new.tossWinner
                /\ {inn.battingTeam, inn.bowlingTeam} = teams
                /\ inn.battingTeam # inn.bowlingTeam
                /\ balls' = balls]_vars

\* Team T2 won the toss and chose to bowl: the match is live and T1 bats.
C28_Witness ==
    \E m \in Stored :
        /\ response = Reply("start", m, 200)
        /\ matches[m].status = "live"
        /\ matches[m].tossWinner = "T2" /\ matches[m].tossDecision = "bowl"
        /\ matches[m].team1 = "T1" /\ matches[m].team2 = "T2"
        /\ Len(InningsOf(m)) = 1
        /\ InningsOf(m)[1].battingTeam = "T1"
        /\ InningsOf(m)[1].bowlingTeam = "T2"

----------------------------------------------------------------------------
\* The order of the scorecard's sort { innings: 1, over: 1, ball: 1 }
\* (scoring.js:249-252) on two ball documents.
StampBefore(a, b) ==
    \/ a.innings < b.innings
    \/ a.innings = b.innings /\ a.over < b.over
    \/ a.innings = b.innings /\ a.over = b.over /\ a.ball < b.ball

SameStamp(a, b) ==
    a.innings = b.innings /\ a.over = b.over /\ a.ball = b.ball

----------------------------------------------------------------------------
\* The most legal deliveries an innings of the match can receive.
LegalLimit(m) == IF matches[m].overs <= 0 THEN 1 ELSE 6 * matches[m].overs

====
